---- MODULE Spec2Model ----
(***************************************************************************)
(* The two notebooks of the repository (notebooks/magnetism.ipynb and the  *)
(* simulation notebook that follows it in the source file) as state        *)
(* machines.  A notebook is a kernel with global variables; running a cell *)
(* is a sequence of steps.  In the magnetism notebook a step is a loop     *)
(* header, an assignment or a library call of calc_log_ratios, or the      *)
(* whole inner loop of the thickness sweep at one YIG thickness; a library *)
(* call either returns or raises, and the notebook catches nothing.  In    *)
(* the simulation notebook a step is a cell.                               *)
(*                                                                         *)
(* Numbers.  The model is over the integers, so every non-integer quantity *)
(* of the notebooks is held multiplied by a fixed factor:                  *)
(*   - a value of np.linspace(a, b, n) is held times 2*(n-1);              *)
(*   - the angle of an (angle, points, time) tuple is held times 2 in the *)
(*     magnetism notebook and times 10 in the simulation notebook;         *)
(*   - a per-angle time split*total_time is held times 7 (the splits are   *)
(*     1/7, 2/7, 4/7) on top of the factor of total_time;                  *)
(*   - an x value of the log-ratio plot, 1.5*time, is held times 2 on top  *)
(*     of the factor of time;                                              *)
(*   - a magnetic moment is held times 100000 (0.01638 is 1638);           *)
(*   - an SLD is held times 1000 (2.047 is 2047);                          *)
(*   - a median is held times 2 (np.median of an even number of values is  *)
(*     the mean of the two middle ones).                                   *)
(***************************************************************************)
EXTENDS Integers, Sequences, FiniteSets, TLC

\* The seeds of the libraries' random number generator range over 0..MaxSeed.
MaxSeed == 0

\* np.linspace(400, 900, 60)
NumYig == 60
\* np.linspace(21.5, 30, 25) and np.linspace(30, 100, 25)
NumPtHalf == 25
\* np.linspace(40, 4000, 100)
NumTimes == 100
\* for _ in range(20)
NumReps == 20
\* if i % 5 == 0
SweepPrintEvery == 5
\* if i % 20 == 0
RatioPrintEvery == 20
\* sample.pt_mag.value = 0.01638, times 100000
PtMag == 1638
\* the count of simulated data sets the comment of calc_log_ratios promises
DocumentedReps == 100

\* np.linspace(a, b, n)[k-1], times 2*(n-1); a2 and b2 are 2*a and 2*b.
Linspace(a2, b2, n, k) == a2 * (n - 1) + (b2 - a2) * (k - 1)

yig_thick_range == [k \in 1..NumYig |-> Linspace(800, 1800, NumYig, k)]

pt_thick_range ==
  [k \in 1..NumPtHalf |-> Linspace(43, 60, NumPtHalf, k)]
    \o [k \in 1..NumPtHalf |-> Linspace(60, 200, NumPtHalf, k)]

times == [k \in 1..NumTimes |-> Linspace(80, 8000, NumTimes, k)]

\* (angle, points, split): the split is held times 7.
angle_splits == << <<1, 100, 1>>, <<2, 100, 2>>, <<4, 100, 4>> >>

\* The measurement plan of the thickness sweep: (angle, points, time).
SweepAngleTimes == << <<1, 100, 20>>, <<2, 100, 40>>, <<4, 100, 80>> >>

\* The two platinum thicknesses of the log-ratio plot, by call.
PlotThickness == <<26, 80>>

RECURSIVE SumTimes(_)
\* The sum of the times of a list of (angle, points, time) tuples.
SumTimes(at) == IF at = <<>> THEN 0 ELSE at[1][3] + SumTimes(Tail(at))

----------------------------------------------------------------------------
(* The hogben library, which the notebooks import.  Its code is not in the *)
(* source; each function is a fixed stand-in that depends on every         *)
(* argument and on every parameter the call can read.                      *)

\* SampleYIG(): a new sample; its platinum moment starts at the library's
\* default.
SampleYIG == [pt_mag |-> 0]

\* sample.underlayer_info(angle_times, yig_thick, pt_thick): a matrix.
UnderlayerInfo(s, mag, at, yig, pt) ==
  LET v == (SumTimes(at) * (mag + 1) + yig + 3 * pt + 7 * s) % 1009
  IN  << <<v, v + 1>>, <<v + 2, v + 3>> >>

\* The next state of the libraries' random number generator.
NextRng(r) == (5 * r + 3) % 16

\* The reflectivity a structure gives: it depends on the moment the sample
\* has when it is evaluated, on the platinum thickness and on the time.
Signal(mag, pt, at) == pt + (mag \div 91) * (SumTimes(at) \div (7 * 7920))

\* simulate_magnetic(structure, angle_times, ...): the models keep the
\* structure (which reads the sample's parameters when evaluated) and the
\* simulated data, drawn around the signal of the moment at the call.
SimulateMagnetic(r, mag, structure, at) ==
  [structure |-> structure,
   angle_times |-> at,
   sim_mag |-> mag,
   data |-> Signal(mag, structure.pt_thick, at) + (r % 5) - 2]

\* _logl(models): the log-likelihood of the models' data under the
\* structure as the sample's parameters are now.
Logl(models, mag) ==
  LET d == models.data - Signal(mag, models.structure.pt_thick, models.angle_times)
  IN  0 - d * d

----------------------------------------------------------------------------
VARIABLES
  seed,         \* the seed the libraries' generator started from
  rng,          \* the state of the libraries' generator
  cell,         \* the running cell: "idle", "sweep", "ratios", "raised"
  pc,           \* the position in the running cell
  sample,       \* global `sample`
  angle_times,  \* global `angle_times` (<<>> while undefined)
  i,            \* the sweep's outer index (0-based, as enumerate)
  j,            \* the passes of the inner loop made at the current index
  x, y, infos,  \* globals of the sweep cell
  fig,          \* global `fig`: what the last figure shows
  out,          \* the printed output of the cell run last
  fr,           \* the locals of calc_log_ratios during a call
  callNo,       \* which call of calc_log_ratios the cell is in (1 or 2)
  ncalls,       \* library calls the running cell has made
  failed,       \* <<>>, or what the kernel was at the first raising call
  plot_xs,      \* the first argument of the pending plot call, 1.5*times
  sims,         \* the simulations of the current time value: for each,
                \* the total time passed to simulate_magnetic and the ratio
  summary,      \* per finished time value: the times and the count of its
                \* simulations and the median of their ratios, times 2
  steps,        \* the steps of the current repetition, in order
  sample_1,     \* simulation notebook: global `sample_1` (<<>> while undefined)
  sample_2,     \* simulation notebook: global `sample_2` (<<>> while undefined)
  nb            \* simulation notebook: the rest of its kernel

vars == <<seed, rng, cell, pc, sample, angle_times, i, j, x, y, infos, fig,
          out, fr, callNo, plot_xs, ncalls, failed, sims, summary, steps,
          sample_1, sample_2, nb>>

sweepVars == <<i, j, x, y, infos>>
ratioVars == <<fr, callNo, plot_xs, sims, summary, steps>>
simVars == <<sample_1, sample_2, nb>>
magnetismVars == <<seed, rng, cell, pc, sample, angle_times, i, j, x, y, infos,
                   fig, out, fr, callNo, plot_xs, ncalls, failed, sims,
                   summary, steps>>

NoFrame == [pt_thick |-> 0, ratios |-> <<>>, ti |-> 0, temp |-> <<>>,
            rep |-> 0, angle_times |-> <<>>, sample |-> <<>>,
            structure |-> <<>>, models |-> <<>>, logl_1 |-> 0, logl_2 |-> 0]

NoFig == [kind |-> "none", lines |-> <<>>, npoints |-> 0]

\* The kernel of the simulation notebook after its import cell.
NewKernel ==
  [state |-> "idle", rng |-> 0, SLD |-> "none", plot_reflectivity |-> FALSE,
   angle_times |-> <<>>, model_1 |-> <<>>, data_1 |-> <<>>,
   model_2 |-> <<>>, data_2 |-> <<>>, compared |-> FALSE]

\* The kernel of the magnetism notebook after the import cell and the cell
\* that builds the sample and sets its platinum moment; the kernel of the
\* simulation notebook after its import cell.
Init ==
  /\ sample_1 = <<>>
  /\ sample_2 = <<>>
  /\ \E r \in 0..MaxSeed : nb = [NewKernel EXCEPT !.rng = r]
  /\ seed \in 0..MaxSeed
  /\ rng = seed
  /\ cell = "idle"
  /\ pc = "idle"
  /\ sample = [SampleYIG EXCEPT !.pt_mag = PtMag]
  /\ angle_times = <<>>
  /\ i = 0
  /\ j = 0
  /\ x = <<>>
  /\ y = <<>>
  /\ infos = <<>>
  /\ fig = NoFig
  /\ out = <<>>
  /\ fr = NoFrame
  /\ callNo = 0
  /\ plot_xs = <<>>
  /\ ncalls = 0
  /\ failed = <<>>
  /\ sims = <<>>
  /\ summary = <<>>
  /\ steps = <<>>

\* Running the sample cell again: a new sample with the moment set.
RunSetup ==
  /\ cell = "idle"
  /\ sample' = [SampleYIG EXCEPT !.pt_mag = PtMag]
  /\ UNCHANGED <<seed, rng, cell, pc, angle_times, fig, out, ncalls, failed>>
  /\ UNCHANGED sweepVars
  /\ UNCHANGED ratioVars
  /\ UNCHANGED simVars

----------------------------------------------------------------------------
(* The thickness-sweep cell. *)

\* The cell up to the outer loop: the plan, the ranges, the empty lists.
StartSweep ==
  /\ cell = "idle"
  /\ cell' = "sweep"
  /\ pc' = "outer"
  /\ angle_times' = SweepAngleTimes
  /\ x' = <<>>
  /\ y' = <<>>
  /\ infos' = <<>>
  /\ i' = 0
  /\ j' = 0
  /\ out' = <<>>
  /\ ncalls' = 0
  /\ UNCHANGED <<seed, rng, sample, fig, failed>>
  /\ UNCHANGED ratioVars
  /\ UNCHANGED simVars

\* A progress message that reports the outer index, not the calculations.
SweepMessage_index(idx) ==
  LET n == Len(pt_thick_range) * Len(yig_thick_range)
  IN  [first |-> idx, second |-> n, loop |-> 0,
       index |-> idx, completed |-> Len(infos)]

\* What the sweep prints at outer index `idx`.
SweepMessage(idx) ==
  LET n == Len(pt_thick_range) * Len(yig_thick_range)
  IN  [first |-> idx * Len(pt_thick_range), second |-> n, loop |-> 0,
       index |-> idx, completed |-> Len(infos)]

\* The header of the outer loop and the progress message.
SweepOuter ==
  /\ cell = "sweep"
  /\ pc = "outer"
  /\ IF i < Len(yig_thick_range)
       THEN /\ out' = IF i % SweepPrintEvery = 0
                        THEN Append(out, SweepMessage(i))
                        ELSE out
            /\ j' = 0
            /\ pc' = "inner"
       ELSE /\ pc' = "plot"
            /\ UNCHANGED <<out, j>>
  /\ UNCHANGED <<seed, rng, cell, sample, angle_times, i, x, y, infos, fig,
                 ncalls, failed>>
  /\ UNCHANGED ratioVars
  /\ UNCHANGED simVars

\* Keeping the last diagonal element of the matrix instead of the first.
KeptElement_last(g) == g[2][2]

\* The element of the matrix the sweep keeps: g[0,0].
KeptElement(g) == g[1][1]

\* The first `count` passes of the inner loop at the current YIG thickness:
\* what each pass appends to infos, x and y, in the order of pt_thick_range.
RowInfos(count) ==
  [k \in 1..count |->
     KeptElement(UnderlayerInfo(seed, sample.pt_mag, angle_times,
                                yig_thick_range[i + 1], pt_thick_range[k]))]

RowX(count) == [k \in 1..count |-> yig_thick_range[i + 1]]

RowY(count) == [k \in 1..count |-> pt_thick_range[k]]

\* The inner loop at one YIG thickness, every call returning: one call and
\* three appends per platinum thickness; then the outer loop moves on.
SweepRow ==
  /\ cell = "sweep"
  /\ pc = "inner"
  /\ infos' = infos \o RowInfos(Len(pt_thick_range))
  /\ x' = x \o RowX(Len(pt_thick_range))
  /\ y' = y \o RowY(Len(pt_thick_range))
  /\ ncalls' = ncalls + Len(pt_thick_range)
  /\ j' = 0
  /\ i' = i + 1
  /\ pc' = "outer"
  /\ UNCHANGED <<seed, rng, cell, sample, angle_times, fig, out, failed>>
  /\ UNCHANGED ratioVars
  /\ UNCHANGED simVars

\* The inner loop at one YIG thickness when a call of underlayer_info
\* raises: the passes before it have appended, nothing catches the
\* exception, and the cell ends at that call.
SweepRaise ==
  /\ cell = "sweep"
  /\ pc = "inner"
  /\ failed = <<>>
  /\ \E k \in 1..Len(pt_thick_range) :
       /\ infos' = infos \o RowInfos(k - 1)
       /\ x' = x \o RowX(k - 1)
       /\ y' = y \o RowY(k - 1)
       /\ j' = k - 1
       /\ ncalls' = ncalls + k
       /\ failed' = <<[cell |-> cell, pc |-> pc, ncalls |-> ncalls + k,
                       fig |-> fig, callNo |-> callNo]>>
  /\ cell' = "raised"
  /\ UNCHANGED <<seed, rng, pc, sample, angle_times, i, fig, out>>
  /\ UNCHANGED ratioVars
  /\ UNCHANGED simVars

\* The surface plot of the lists, after the loops.
SweepPlot ==
  /\ cell = "sweep"
  /\ pc = "plot"
  /\ fig' = [kind |-> "trisurf", lines |-> <<>>, npoints |-> Len(infos)]
  /\ cell' = "idle"
  /\ pc' = "idle"
  /\ UNCHANGED <<seed, rng, sample, angle_times, i, j, x, y, infos, out,
                 ncalls, failed>>
  /\ UNCHANGED ratioVars
  /\ UNCHANGED simVars

----------------------------------------------------------------------------
(* The log-ratio cell: calc_log_ratios and the two plot calls. *)

\* The values of a sequence.
Range(s) == {s[p] : p \in DOMAIN s}

\* The k-th smallest value of a non-empty sequence.
Kth(s, k) ==
  CHOOSE v \in Range(s) :
    /\ Cardinality({p \in DOMAIN s : s[p] < v}) < k
    /\ Cardinality({p \in DOMAIN s : s[p] <= v}) >= k

\* np.median, times 2.
Median2(s) ==
  LET n == Len(s)
  IN  IF n % 2 = 0 THEN Kth(s, n \div 2) + Kth(s, n \div 2 + 1)
                   ELSE 2 * Kth(s, (n + 1) \div 2)

\* Entering calc_log_ratios(pt_thick): ratios = [].
EnterFrame(pt_thick) == [NoFrame EXCEPT !.pt_thick = pt_thick]

\* The times plotted as they are: time, times 2.
PlotX_plain(t) == 2 * t

\* The x value the plot shows for a time: 1.5*time, times 2.
PlotX(t) == 3 * t

\* 1.5*times, the first argument of both plot calls.
ScaledTimes == [k \in DOMAIN times |-> PlotX(times[k])]

\* The cell up to the first plot call: the times, the splits, the function
\* definition, a new figure, and the entry into calc_log_ratios(26).
StartRatios ==
  /\ cell = "idle"
  /\ cell' = "ratios"
  /\ pc' = "time_head"
  /\ fig' = [kind |-> "lines", lines |-> <<>>, npoints |-> 0]
  /\ out' = <<>>
  /\ callNo' = 1
  /\ plot_xs' = ScaledTimes
  /\ fr' = EnterFrame(PlotThickness[1])
  /\ ncalls' = 0
  /\ sims' = <<>>
  /\ summary' = <<>>
  /\ steps' = <<>>
  /\ UNCHANGED <<seed, rng, sample, angle_times, failed>>
  /\ UNCHANGED sweepVars
  /\ UNCHANGED simVars

\* What calc_log_ratios prints at time index `idx`.
RatioMessage(idx) ==
  [first |-> idx, second |-> Len(times), loop |-> callNo, index |-> idx,
   completed |-> Len(fr.ratios)]

\* The loop header with temp = [] left out of the loop.
TimeHead_kept ==
  /\ cell = "ratios"
  /\ pc = "time_head"
  /\ IF fr.ti < Len(times)
       THEN /\ out' = IF fr.ti % RatioPrintEvery = 0
                        THEN Append(out, RatioMessage(fr.ti))
                        ELSE out
            /\ fr' = [fr EXCEPT !.rep = 0]
            /\ sims' = <<>>
            /\ pc' = "rep_head"
       ELSE /\ pc' = "ret"
            /\ UNCHANGED <<out, fr, sims>>
  /\ UNCHANGED <<seed, rng, cell, sample, angle_times, fig, callNo, plot_xs,
                 ncalls, failed, summary, steps>>
  /\ UNCHANGED sweepVars
  /\ UNCHANGED simVars

\* The header of the loop over the times: the progress message and
\* temp = []; after the last time the function returns.
TimeHead ==
  /\ cell = "ratios"
  /\ pc = "time_head"
  /\ IF fr.ti < Len(times)
       THEN /\ out' = IF fr.ti % RatioPrintEvery = 0
                        THEN Append(out, RatioMessage(fr.ti))
                        ELSE out
            /\ fr' = [fr EXCEPT !.temp = <<>>, !.rep = 0]
            /\ sims' = <<>>
            /\ pc' = "rep_head"
       ELSE /\ pc' = "ret"
            /\ UNCHANGED <<out, fr, sims>>
  /\ UNCHANGED <<seed, rng, cell, sample, angle_times, fig, callNo, plot_xs,
                 ncalls, failed, summary, steps>>
  /\ UNCHANGED sweepVars
  /\ UNCHANGED simVars

\* What is kept of the simulations of a time value once it is finished.
Summary(ss) ==
  [times |-> {ss[k][1] : k \in DOMAIN ss},
   count |-> Len(ss),
   median2 |-> IF ss = <<>> THEN 0 ELSE Median2([k \in DOMAIN ss |-> ss[k][2]])]

\* The header of the loop over the repetitions: the per-angle times of this
\* total time; after the last repetition the median is recorded and the
\* loop over the times moves on.
RepHead ==
  /\ cell = "ratios"
  /\ pc = "rep_head"
  /\ IF fr.rep < NumReps
       THEN /\ fr' = [fr EXCEPT !.angle_times =
                        [k \in DOMAIN angle_splits |->
                           <<angle_splits[k][1], angle_splits[k][2],
                             angle_splits[k][3] * times[fr.ti + 1]>>]]
            /\ steps' = <<>>
            /\ pc' = "new_sample"
            /\ UNCHANGED summary
       ELSE /\ fr' = [fr EXCEPT !.ratios = Append(@, Median2(fr.temp)),
                                !.ti = @ + 1]
            /\ summary' = Append(summary, Summary(sims))
            /\ pc' = "time_head"
            /\ UNCHANGED steps
  /\ UNCHANGED <<seed, rng, cell, sample, angle_times, fig, out, callNo,
                 plot_xs, ncalls, failed, sims>>
  /\ UNCHANGED sweepVars
  /\ UNCHANGED simVars

\* sample = SampleYIG(): a new sample, local to the function.
NewSample ==
  /\ cell = "ratios"
  /\ pc = "new_sample"
  /\ fr' = [fr EXCEPT !.sample = SampleYIG]
  /\ ncalls' = ncalls + 1
  /\ pc' = "set_moment"
  /\ UNCHANGED <<seed, rng, cell, sample, angle_times, fig, out, callNo,
                 plot_xs, failed, sims, summary, steps>>
  /\ UNCHANGED sweepVars
  /\ UNCHANGED simVars

\* The moment set in the first repetition of the first time only.
SetMoment_first ==
  /\ cell = "ratios"
  /\ pc = "set_moment"
  /\ fr' = IF fr.ti = 0 /\ fr.rep = 0
             THEN [fr EXCEPT !.sample.pt_mag = PtMag]
             ELSE fr
  /\ steps' = Append(steps, "set_moment")
  /\ pc' = "using_conditions"
  /\ UNCHANGED <<seed, rng, cell, sample, angle_times, fig, out, callNo,
                 plot_xs, ncalls, failed, sims, summary>>
  /\ UNCHANGED sweepVars
  /\ UNCHANGED simVars

\* sample.pt_mag.value = 0.01638
SetMoment ==
  /\ cell = "ratios"
  /\ pc = "set_moment"
  /\ fr' = [fr EXCEPT !.sample.pt_mag = PtMag]
  /\ steps' = Append(steps, "set_moment")
  /\ pc' = "using_conditions"
  /\ UNCHANGED <<seed, rng, cell, sample, angle_times, fig, out, callNo,
                 plot_xs, ncalls, failed, sims, summary>>
  /\ UNCHANGED sweepVars
  /\ UNCHANGED simVars

\* structure = sample.using_conditions(pt_thick=pt_thick)
UsingConditions ==
  /\ cell = "ratios"
  /\ pc = "using_conditions"
  /\ fr' = [fr EXCEPT !.structure = [pt_thick |-> fr.pt_thick]]
  /\ ncalls' = ncalls + 1
  /\ pc' = "simulate"
  /\ UNCHANGED <<seed, rng, cell, sample, angle_times, fig, out, callNo,
                 plot_xs, failed, sims, summary, steps>>
  /\ UNCHANGED sweepVars
  /\ UNCHANGED simVars

\* models, datasets = simulate_magnetic(structure, angle_times, ...)
Simulate ==
  /\ cell = "ratios"
  /\ pc = "simulate"
  /\ fr' = [fr EXCEPT !.models =
              SimulateMagnetic(rng, fr.sample.pt_mag, fr.structure, fr.angle_times)]
  /\ rng' = NextRng(rng)
  /\ ncalls' = ncalls + 1
  /\ steps' = Append(steps, "simulate")
  /\ pc' = "logl_1"
  /\ UNCHANGED <<seed, cell, sample, angle_times, fig, out, callNo, plot_xs,
                 failed, sims, summary>>
  /\ UNCHANGED sweepVars
  /\ UNCHANGED simVars

\* logl_1 = _logl(models)
Logl1 ==
  /\ cell = "ratios"
  /\ pc = "logl_1"
  /\ fr' = [fr EXCEPT !.logl_1 = Logl(fr.models, fr.sample.pt_mag)]
  /\ ncalls' = ncalls + 1
  /\ steps' = Append(steps, "logl_1")
  /\ pc' = "zero_moment"
  /\ UNCHANGED <<seed, rng, cell, sample, angle_times, fig, out, callNo,
                 plot_xs, failed, sims, summary>>
  /\ UNCHANGED sweepVars
  /\ UNCHANGED simVars

\* The moment zeroed on the global sample as well as on the function's.
ZeroMoment_global ==
  /\ cell = "ratios"
  /\ pc = "zero_moment"
  /\ fr' = [fr EXCEPT !.sample.pt_mag = 0]
  /\ sample' = [sample EXCEPT !.pt_mag = 0]
  /\ steps' = Append(steps, "zero_moment")
  /\ pc' = "logl_2"
  /\ UNCHANGED <<seed, rng, cell, angle_times, fig, out, callNo,
                 plot_xs, ncalls, failed, sims, summary>>
  /\ UNCHANGED sweepVars
  /\ UNCHANGED simVars

\* sample.pt_mag.value = 0, on the function's own sample.
ZeroMoment ==
  /\ cell = "ratios"
  /\ pc = "zero_moment"
  /\ fr' = [fr EXCEPT !.sample.pt_mag = 0]
  /\ steps' = Append(steps, "zero_moment")
  /\ pc' = "logl_2"
  /\ UNCHANGED <<seed, rng, cell, sample, angle_times, fig, out, callNo,
                 plot_xs, ncalls, failed, sims, summary>>
  /\ UNCHANGED sweepVars
  /\ UNCHANGED simVars

\* logl_2 = _logl(models)
Logl2 ==
  /\ cell = "ratios"
  /\ pc = "logl_2"
  /\ fr' = [fr EXCEPT !.logl_2 = Logl(fr.models, fr.sample.pt_mag)]
  /\ ncalls' = ncalls + 1
  /\ steps' = Append(steps, "logl_2")
  /\ pc' = "record"
  /\ UNCHANGED <<seed, rng, cell, sample, angle_times, fig, out, callNo,
                 plot_xs, failed, sims, summary>>
  /\ UNCHANGED sweepVars
  /\ UNCHANGED simVars

\* The ratio taken the other way round.
Ratio_reversed(logl_1, logl_2) == logl_2 - logl_1

\* ratio = logl_1-logl_2
Ratio(logl_1, logl_2) == logl_1 - logl_2

\* temp.append(ratio), and the next repetition.
Record ==
  /\ cell = "ratios"
  /\ pc = "record"
  /\ LET ratio == Ratio(fr.logl_1, fr.logl_2)
     IN  /\ fr' = [fr EXCEPT !.temp = Append(@, ratio), !.rep = @ + 1]
         /\ sims' = Append(sims, <<SumTimes(fr.models.angle_times), ratio>>)
  /\ pc' = "rep_head"
  /\ UNCHANGED <<seed, rng, cell, sample, angle_times, fig, out, callNo,
                 plot_xs, ncalls, failed, summary, steps>>
  /\ UNCHANGED sweepVars
  /\ UNCHANGED simVars

\* ax.plot(1.5*times, calc_log_ratios(...), label=...): the returned list
\* is drawn against the first argument, which was evaluated before the call
\* of calc_log_ratios.
Plot ==
  /\ cell = "ratios"
  /\ pc = "ret"
  /\ fig' = [fig EXCEPT !.lines =
               Append(@, [xs |-> plot_xs,
                          ys |-> fr.ratios,
                          label |-> PlotThickness[callNo]])]
  /\ pc' = "plotted"
  /\ plot_xs' = <<>>
  /\ UNCHANGED <<seed, rng, cell, sample, angle_times, out, ncalls, failed>>
  /\ UNCHANGED sweepVars
  /\ UNCHANGED <<fr, callNo, sims, summary, steps>>
  /\ UNCHANGED simVars

\* After the first plot call the second one enters calc_log_ratios(80);
\* after the second the cell ends.
NextCall ==
  /\ cell = "ratios"
  /\ pc = "plotted"
  /\ IF callNo < Len(PlotThickness)
       THEN /\ callNo' = callNo + 1
            /\ plot_xs' = ScaledTimes
            /\ fr' = EnterFrame(PlotThickness[callNo + 1])
            /\ pc' = "time_head"
            /\ UNCHANGED cell
       ELSE /\ callNo' = 0
            /\ plot_xs' = <<>>
            /\ fr' = NoFrame
            /\ pc' = "idle"
            /\ cell' = "idle"
  /\ sims' = <<>>
  /\ summary' = <<>>
  /\ steps' = <<>>
  /\ UNCHANGED <<seed, rng, sample, angle_times, fig, out, ncalls, failed>>
  /\ UNCHANGED sweepVars
  /\ UNCHANGED simVars

----------------------------------------------------------------------------
\* The positions at which calc_log_ratios is about to call the library.
CallPcs == {"new_sample", "using_conditions", "simulate", "logl_1", "logl_2"}

\* A raising call that is caught and tried again: the cell goes on.
Raise_caught ==
  /\ cell = "ratios"
  /\ pc \in CallPcs
  /\ failed = <<>>
  /\ failed' = <<[cell |-> cell, pc |-> pc, ncalls |-> ncalls + 1,
                  fig |-> fig, callNo |-> callNo]>>
  /\ ncalls' = ncalls + 1
  /\ UNCHANGED <<seed, rng, cell, pc, sample, angle_times, fig, out>>
  /\ UNCHANGED sweepVars
  /\ UNCHANGED ratioVars
  /\ UNCHANGED simVars

\* A library call of calc_log_ratios raises: nothing catches it, the cell
\* ends there.
Raise ==
  /\ cell = "ratios"
  /\ pc \in CallPcs
  /\ failed = <<>>
  /\ failed' = <<[cell |-> cell, pc |-> pc, ncalls |-> ncalls + 1,
                  fig |-> fig, callNo |-> callNo]>>
  /\ ncalls' = ncalls + 1
  /\ cell' = "raised"
  /\ UNCHANGED <<seed, rng, pc, sample, angle_times, fig, out>>
  /\ UNCHANGED sweepVars
  /\ UNCHANGED ratioVars
  /\ UNCHANGED simVars

\* After an exception the kernel is restarted and the first cells run again.
RestartKernel ==
  /\ cell = "raised"
  /\ seed' \in 0..MaxSeed
  /\ rng' = seed'
  /\ cell' = "idle"
  /\ pc' = "idle"
  /\ sample' = [SampleYIG EXCEPT !.pt_mag = PtMag]
  /\ angle_times' = <<>>
  /\ i' = 0
  /\ j' = 0
  /\ x' = <<>>
  /\ y' = <<>>
  /\ infos' = <<>>
  /\ fig' = NoFig
  /\ out' = <<>>
  /\ fr' = NoFrame
  /\ callNo' = 0
  /\ plot_xs' = <<>>
  /\ ncalls' = 0
  /\ failed' = <<>>
  /\ sims' = <<>>
  /\ summary' = <<>>
  /\ steps' = <<>>
  /\ UNCHANGED simVars

NextSweep ==
  \/ RunSetup
  \/ StartSweep
  \/ SweepOuter
  \/ SweepRow
  \/ SweepRaise
  \/ SweepPlot
  \/ RestartKernel

SpecSweep == Init /\ [][NextSweep]_vars

NextRatios ==
  \/ StartRatios
  \/ TimeHead
  \/ RepHead
  \/ NewSample
  \/ SetMoment
  \/ UsingConditions
  \/ Simulate
  \/ Logl1
  \/ ZeroMoment
  \/ Logl2
  \/ Record
  \/ Plot
  \/ NextCall
  \/ Raise
  \/ RestartKernel

SpecRatios == Init /\ [][NextRatios]_vars

Next ==
  \/ RunSetup
  \/ StartSweep
  \/ SweepOuter
  \/ SweepRow
  \/ SweepRaise
  \/ SweepPlot
  \/ StartRatios
  \/ TimeHead
  \/ RepHead
  \/ NewSample
  \/ SetMoment
  \/ UsingConditions
  \/ Simulate
  \/ Logl1
  \/ ZeroMoment
  \/ Logl2
  \/ Record
  \/ Plot
  \/ NextCall
  \/ Raise
  \/ RestartKernel

Spec == Init /\ [][Next]_vars

----------------------------------------------------------------------------
(* The simulation notebook.  Each of its cells is one step. *)

\* refnx and Refl1D: SLD(value, name), a material that is not yet a layer.
SLD(rho, name) == [name |-> name, sld |-> rho, layer |-> FALSE]

\* material(thick, rough) in refnx, material(thickness, interface) in
\* Refl1D: a layer of the material.
Slab(material, thick, rough) ==
  [name |-> material.name, sld |-> material.sld, layer |-> TRUE,
   thick |-> thick, rough |-> rough]

\* The | of both libraries stacks layers in the order written; a material
\* that was never made a layer enters as a layer of thickness 0 and
\* roughness 0.
Stack(components) ==
  [k \in DOMAIN components |->
     IF components[k].layer THEN components[k]
                            ELSE Slab(components[k], 0, 0)]

\* sample_1 = air | layer1 | layer2 | substrate, in refnx.
RefnxStructure ==
  LET air == SLD(0, "Air")
      layer1 == Slab(SLD(4000, "Layer 1"), 100, 2)
      layer2 == Slab(SLD(8000, "Layer 2"), 150, 2)
      substrate == Slab(SLD(2047, "Substrate"), 0, 2)
  IN  Stack(<<air, layer1, layer2, substrate>>)

\* The Refl1D structure stacked in the order of the refnx one.
Refl1dStructure_unreversed ==
  LET air == SLD(0, "Air")
      layer1 == Slab(SLD(4000, "Layer 1"), 100, 2)
      layer2 == Slab(SLD(8000, "Layer 2"), 150, 2)
      substrate == Slab(SLD(2047, "Substrate"), 0, 2)
  IN  Stack(<<air, layer1, layer2, substrate>>)

\* sample_2 = substrate | layer2 | layer1 | air, in Refl1D.
Refl1dStructure ==
  LET air == SLD(0, "Air")
      layer1 == Slab(SLD(4000, "Layer 1"), 100, 2)
      layer2 == Slab(SLD(8000, "Layer 2"), 150, 2)
      substrate == Slab(SLD(2047, "Substrate"), 0, 2)
  IN  Stack(<<substrate, layer2, layer1, air>>)

\* The plan of the simulation notebook: (angle, points, time), the angle
\* held times 10.
SimulationAngleTimes == << <<7, 100, 5>>, <<20, 100, 20>> >>

\* hogben's simulate(sample, angle_times, scale, bkg, dq): a model that
\* keeps the structure, and data drawn with the generator.
SimulateOnce(r, structure, at) ==
  [model |-> [structure |-> structure, angle_times |-> at],
   data |-> SumTimes(at) + (r % 5) - 2]

\* The cell that defines sample_1 with refnx.
RunRefnxCell ==
  /\ nb.state = "idle"
  /\ nb' = [nb EXCEPT !.SLD = "refnx"]
  /\ sample_1' = RefnxStructure
  /\ UNCHANGED sample_2
  /\ UNCHANGED magnetismVars

\* The cell that plots the SLD profile of sample_1: a NameError without it.
RunProfileCell ==
  /\ nb.state = "idle"
  /\ nb' = IF sample_1 = <<>> THEN [nb EXCEPT !.state = "raised"] ELSE nb
  /\ UNCHANGED <<sample_1, sample_2>>
  /\ UNCHANGED magnetismVars

\* The cell that sets the plan and simulates sample_1.
RunSimulate1Cell ==
  /\ nb.state = "idle"
  /\ nb' = IF sample_1 = <<>>
             THEN [nb EXCEPT !.state = "raised",
                             !.angle_times = SimulationAngleTimes]
             ELSE LET r == SimulateOnce(nb.rng, sample_1, SimulationAngleTimes)
                  IN  [nb EXCEPT !.angle_times = SimulationAngleTimes,
                                 !.model_1 = r.model,
                                 !.data_1 = r.data,
                                 !.rng = NextRng(@)]
  /\ UNCHANGED <<sample_1, sample_2>>
  /\ UNCHANGED magnetismVars

\* The cell that defines plot_reflectivity and plots model_1 and data_1.
RunPlot1Cell ==
  /\ nb.state = "idle"
  /\ nb' = IF nb.model_1 = <<>>
             THEN [nb EXCEPT !.plot_reflectivity = TRUE, !.state = "raised"]
             ELSE [nb EXCEPT !.plot_reflectivity = TRUE]
  /\ UNCHANGED <<sample_1, sample_2>>
  /\ UNCHANGED magnetismVars

\* The cell that defines sample_2 with Refl1D.
RunRefl1dCell ==
  /\ nb.state = "idle"
  /\ nb' = [nb EXCEPT !.SLD = "refl1d"]
  /\ sample_2' = Refl1dStructure
  /\ UNCHANGED sample_1
  /\ UNCHANGED magnetismVars

\* The cell that simulates sample_2 and plots it.
RunSimulate2Cell ==
  /\ nb.state = "idle"
  /\ nb' = IF sample_2 = <<>> \/ nb.angle_times = <<>>
             THEN [nb EXCEPT !.state = "raised"]
             ELSE LET r == SimulateOnce(nb.rng, sample_2, nb.angle_times)
                  IN  [nb EXCEPT !.model_2 = r.model,
                                 !.data_2 = r.data,
                                 !.rng = NextRng(@),
                                 !.state = IF nb.plot_reflectivity
                                             THEN "idle" ELSE "raised"]
  /\ UNCHANGED <<sample_1, sample_2>>
  /\ UNCHANGED magnetismVars

\* The cell that plots the reflectivity of model_1 and of model_2.
RunCompareCell ==
  /\ nb.state = "idle"
  /\ nb' = IF nb.model_1 = <<>> \/ nb.model_2 = <<>>
             THEN [nb EXCEPT !.state = "raised"]
             ELSE [nb EXCEPT !.compared = TRUE]
  /\ UNCHANGED <<sample_1, sample_2>>
  /\ UNCHANGED magnetismVars

\* After an exception the kernel is restarted and the import cell run.
RestartSimulationKernel ==
  /\ nb.state = "raised"
  /\ \E r \in 0..MaxSeed : nb' = [NewKernel EXCEPT !.rng = r]
  /\ sample_1' = <<>>
  /\ sample_2' = <<>>
  /\ UNCHANGED magnetismVars

NextSimulation ==
  \/ RunRefnxCell
  \/ RunProfileCell
  \/ RunSimulate1Cell
  \/ RunPlot1Cell
  \/ RunRefl1dCell
  \/ RunSimulate2Cell
  \/ RunCompareCell
  \/ RestartSimulationKernel

SpecSimulation == Init /\ [][NextSimulation]_vars

----------------------------------------------------------------------------
(* The claims. *)

\* C1: when a library call of the thickness-sweep cell or of
\* calc_log_ratios raises, the exception ends the cell: the cell stays at
\* the raising call, makes no further library call (the failed one is not
\* repeated), and the figure stays what it was, so the plot call that would
\* draw the loop's results is never reached.
C1_NoRecovery ==
  failed # <<>> =>
    /\ cell = "raised"
    /\ pc = failed[1].pc
    /\ pc \in CallPcs \cup {"inner"}
    /\ ncalls = failed[1].ncalls
    /\ fig = failed[1].fig
    /\ failed[1].cell = "ratios" => Len(fig.lines) = failed[1].callNo - 1

\* C1 witness: _logl raised in the second call of calc_log_ratios, after
\* the first call's line was drawn.
C1_Witness ==
  /\ failed # <<>>
  /\ failed[1].cell = "ratios"
  /\ failed[1].pc = "logl_2"
  /\ failed[1].callNo = 2
  /\ fr.ti > 0

\* C2: calc_log_ratios returns one entry per element of times, in the order
\* of times; entry idx is the median of the ratios of the simulations run
\* at times[idx], and of no other.
C2_MedianPerTime ==
  /\ (cell = "ratios" /\ pc \in {"time_head", "ret"}) =>
       /\ Len(fr.ratios) = fr.ti
       /\ Len(summary) = fr.ti
       /\ \A idx \in DOMAIN summary :
            /\ summary[idx].times = {7 * times[idx]}
            /\ fr.ratios[idx] = summary[idx].median2
  /\ (cell = "ratios" /\ pc = "ret") => Len(fr.ratios) = Len(times)

\* C2 witness: calc_log_ratios(80) is about to return.
C2_Witness ==
  /\ cell = "ratios"
  /\ pc = "ret"
  /\ fr.pt_thick = 80
  /\ Len(fr.ratios) = Len(times)

\* The names of a structure's layers, in the order of its list.
Names(s) == [k \in DOMAIN s |-> s[k].name]

\* A sequence in the reverse order.
Reverse(s) == [k \in DOMAIN s |-> s[Len(s) + 1 - k]]

\* Material and thickness by layer name.
Materials(s) == {<<s[k].name, s[k].sld, s[k].thick>> : k \in DOMAIN s}

\* The roughness of each interface of a refnx structure: a layer's `rough`
\* is that of the interface with the layer before it in the list.
RefnxInterfaces(s) ==
  {<<{s[k - 1].name, s[k].name}, s[k].rough>> : k \in 2..Len(s)}

\* The roughness of each interface of a Refl1D structure: a layer's
\* `interface` is that of the interface with the layer after it in the list.
Refl1dInterfaces(s) ==
  {<<{s[k].name, s[k + 1].name}, s[k].rough>> : k \in 1..(Len(s) - 1)}

\* C3: sample_1 and sample_2 are the same sample: sample_2 lists the layers
\* of sample_1 in the reverse order, each material has the same SLD and
\* thickness in both, and each interface has the same roughness in both
\* under the roughness convention of each library.
C3_SameSample ==
  (sample_1 # <<>> /\ sample_2 # <<>>) =>
    /\ Names(sample_1) = <<"Air", "Layer 1", "Layer 2", "Substrate">>
    /\ Names(sample_2) = Reverse(Names(sample_1))
    /\ Materials(sample_2) = Materials(sample_1)
    /\ Refl1dInterfaces(sample_2) = RefnxInterfaces(sample_1)

\* C3 witness: both structures are defined and both have been simulated.
C3_Witness ==
  /\ sample_1 # <<>>
  /\ sample_2 # <<>>
  /\ nb.model_1 # <<>>
  /\ nb.model_2 # <<>>
  /\ nb.compared

\* The line the last plot call drew.
LastLine == fig.lines[Len(fig.lines)]

MessagesOf(l) == SelectSeq(out, LAMBDA m : m.loop = l)

\* How many of the first `started` indices are multiples of `every`.
Multiples(started, every) == (started + every - 1) \div every

\* C5: the sweep prints exactly at the outer indices i with i % 5 = 0 and
\* calc_log_ratios exactly at the time indices i with i % 20 = 0; a message
\* is printed before the library calls of its iteration, its first number
\* is the number of calculations completed by then, its second number is
\* the number of calculations of the whole loop, and within a loop the
\* first numbers strictly increase.
C5_Progress ==
  /\ \A k \in DOMAIN out :
       /\ out[k].first = out[k].completed
       /\ out[k].loop = 0 =>
            /\ out[k].index % 5 = 0
            /\ out[k].completed = out[k].index * Len(pt_thick_range)
            /\ out[k].second = Len(yig_thick_range) * Len(pt_thick_range)
       /\ out[k].loop > 0 =>
            /\ out[k].index % 20 = 0
            /\ out[k].completed = out[k].index
            /\ out[k].second = Len(times)
       /\ (k > 1 /\ out[k - 1].loop = out[k].loop) =>
            out[k].first > out[k - 1].first
  /\ cell = "sweep" =>
       LET started == IF pc = "inner" THEN i + 1 ELSE i
           msgs == MessagesOf(0)
       IN  /\ Len(msgs) = Multiples(started, 5)
           /\ \A k \in DOMAIN msgs : msgs[k].index = 5 * (k - 1)
           /\ pc = "plot" => Len(infos) = msgs[1].second
  /\ cell = "ratios" =>
       LET started == IF pc \in {"time_head", "ret", "plotted"}
                        THEN fr.ti ELSE fr.ti + 1
           msgs == MessagesOf(callNo)
       IN  /\ Len(msgs) = Multiples(started, 20)
           /\ \A k \in DOMAIN msgs : msgs[k].index = 20 * (k - 1)
           /\ pc = "ret" => Len(fr.ratios) = msgs[1].second

\* C5 witness: the sweep has printed its third message, at outer index 10
\* with ten rows of calculations completed, and has gone on calculating
\* through an outer index that prints nothing.
C5_Witness ==
  /\ cell = "sweep"
  /\ pc = "inner"
  /\ Len(out) = 3
  /\ out[3].index = 10
  /\ out[3].first = 10 * Len(pt_thick_range)
  /\ Len(infos) > out[3].first

\* C6, as claimed: every recorded median is over the ratios of 100
\* simulated data sets.
C6_HundredDataSets ==
  (cell = "ratios" /\ pc = "time_head" /\ fr.ti > 0) =>
    /\ summary[fr.ti].count = DocumentedReps
    /\ Len(fr.temp) = DocumentedReps

\* C7: when every call returns, the sweep ends after exactly
\* n = len(yig_thick_range) * len(pt_thick_range) calls of underlayer_info,
\* made in row-major order, and x, y and infos have length n, entry k being
\* the YIG thickness, the platinum thickness and the [0,0] element of the
\* k-th call.
C7_SweepGrid ==
  LET np == Len(pt_thick_range)
      n == Len(yig_thick_range) * np
  IN  /\ cell = "sweep" =>
           /\ ncalls = i * np + j
           /\ pc = "plot" => ncalls = n
           /\ Len(x) = ncalls
           /\ Len(y) = ncalls
           /\ Len(infos) = ncalls
      /\ (cell = "sweep" /\ pc \in {"outer", "plot"}) =>
           \A k \in DOMAIN infos :
             /\ x[k] = yig_thick_range[(k - 1) \div np + 1]
             /\ y[k] = pt_thick_range[((k - 1) % np) + 1]
             /\ infos[k] =
                  UnderlayerInfo(seed, sample.pt_mag, angle_times, x[k], y[k])[1][1]

\* C7 witness: the sweep has left its loops after all the calls.
C7_Witness ==
  /\ cell = "sweep"
  /\ pc = "plot"
  /\ Len(infos) = Len(yig_thick_range) * Len(pt_thick_range)

\* C8: in every repetition the moment is set to 0.01638, then
\* simulate_magnetic is called, then logl_1 is evaluated with the moment
\* still 0.01638, then the moment is set to 0, then logl_2 is evaluated on
\* the same models; the recorded ratio is logl_1 - logl_2.
C8_RepetitionOrder ==
  /\ (cell = "ratios" /\ pc = "record") =>
       /\ steps = <<"set_moment", "simulate", "logl_1", "zero_moment", "logl_2">>
       /\ fr.models.sim_mag = PtMag
       /\ fr.logl_1 = Logl(fr.models, PtMag)
       /\ fr.logl_2 = Logl(fr.models, 0)
  /\ (cell = "ratios" /\ pc = "rep_head" /\ fr.rep > 0) =>
       /\ steps = <<"set_moment", "simulate", "logl_1", "zero_moment", "logl_2">>
       /\ fr.temp[Len(fr.temp)] = fr.logl_1 - fr.logl_2
       /\ fr.temp[Len(fr.temp)] = Logl(fr.models, PtMag) - Logl(fr.models, 0)

\* C8 witness: a ratio has been recorded in a later repetition, and the
\* two likelihoods differ.
C8_Witness ==
  /\ cell = "ratios"
  /\ pc = "rep_head"
  /\ fr.rep > 1
  /\ fr.ti > 0
  /\ fr.logl_1 # fr.logl_2

\* C9: at every call of simulate_magnetic the sample the structure comes
\* from has the moment 0.01638, so every simulation is of that moment.
C9_SimulatedWithMoment ==
  /\ pc = "simulate" => fr.sample.pt_mag = PtMag
  /\ pc \in {"logl_1", "zero_moment", "logl_2", "record"} =>
       fr.models.sim_mag = PtMag

\* C9 witness: a simulation was made in a later repetition of a later time
\* of the second call (80), after the moment had been zeroed before.
C9_Witness ==
  /\ cell = "ratios"
  /\ pc = "logl_1"
  /\ fr.pt_thick = 80
  /\ fr.ti > 0
  /\ fr.rep > 0

\* C10: calc_log_ratios changes neither global: the global sample keeps
\* the moment 0.01638 throughout, and at every call of underlayer_info the
\* global sample has that moment and the global angle_times is the plan of
\* the sweep.
C10_GlobalsKept ==
  /\ sample.pt_mag = PtMag
  /\ (cell = "sweep" /\ pc = "inner") =>
       /\ angle_times = SweepAngleTimes
  /\ cell = "ratios" => angle_times \in {<<>>, SweepAngleTimes}

\* C10 witness: the sweep calls underlayer_info after the log-ratio cell
\* has run to its end.
C10_Witness ==
  /\ cell = "sweep"
  /\ pc = "inner"
  /\ i > 0
  /\ fig.kind = "lines"
  /\ Len(fig.lines) = 2

====
